---- MODULE Spec2Model ----
(***************************************************************************)
(* Model of DepGraphBuilder (src/generate_dependencies.py): collection of  *)
(* the direct references, the memoised closure computation, the minimal    *)
(* reference map, the reverse maps, the build-log facts and the selection  *)
(* of nodes and edges of one rendered graph.                               *)
(***************************************************************************)
EXTENDS Integers, Sequences, FiniteSets, TLC

(* ---------------------------------------------------------------------- *)
(* Universe of inputs                                                      *)
(* ---------------------------------------------------------------------- *)

\* Normalised project paths that exist in the modelled world.
Paths == {"a", "b", "c"}

\* Python's string order on the paths (sorted(...)).
PathRank == [p \in Paths |-> CASE p = "a" -> 1 [] p = "b" -> 2 [] OTHER -> 3]

\* Bound: total number of <ProjectReference> elements over all project files.
MaxEdges == 4

\* Bound: the same, in the runs that go on to build graphs.
MaxViewEdges == 3

\* Bound: the references in the runs that look up roots and hand over rows.
MaxCallEdges == 2

\* The extension of a project file.
Ext == <<".", "v", "c", "x", "p", "r", "o", "j">>

\* The characters of each path: \3rd_x.vcxproj, \x.vcxproj, \y\x.vcxproj.
PathName ==
    [p \in Paths |->
        CASE p = "a" -> <<"\\", "3", "r", "d", "_", "x">> \o Ext
          [] p = "b" -> <<"\\", "x">> \o Ext
          [] OTHER   -> <<"\\", "y", "\\", "x">> \o Ext]

\* Root names a request may give: '', x, \x, y, 3rd, z and the whole path of
\* one project.
RootNames ==
    {<<>>, <<"x">>, <<"\\", "x">>, <<"y">>, <<"3", "r", "d">>, <<"z">>,
     PathName["b"]}

\* Component names the database may list: x, y and 3rd_x.
ComponentNames == {<<"x">>, <<"y">>, <<"3", "r", "d", "_", "x">>}

\* Root uuids a request may give: none (<<>>), or a one-element tuple with a
\* uuid, the last of which no project has.
RootUuids == {<<>>} \cup {<<u>> : u \in 0..Cardinality(Paths)}

\* Bound: number of builds in a log that reports build times.
MaxFacts == 3

\* Build times in milliseconds a log may report.
Durations == {300, 500, 900}

\* Characters of build-log text; "\\" is the path separator.
Chars == {"\\", "x"}

\* Output file names left by os.path.split: no separator inside.
OutNames == {<<"x">>, <<"y">>}

\* Bound: length of the unused-libraries text of one build.
MaxText == 2

\* Bound: number of projects a request may hide (web mode).
MaxHidden == 1

\* Bound: number of threads that render at the same time.
MaxThreads == 2

\* The value of a variable that holds nothing (Python None).
None == "none"

VARIABLES
    fs,                       \* files on disk: path -> [refs, outputs]
    sln,                      \* the projects listed by the solution / found by rglob
    log,                      \* the parsers given to parse_build_log so far
    pc,                       \* position in the life of the builder
    all_projects,
    _projects,
    _external_projects,
    _ref_map,
    _hide_external_projects,
    _web_mode,
    _project_output_map,
    _full_ref_map,
    stack,                    \* call stack of _build_full_ref_map
    descents,                 \* number of calls of _build_full_ref_map per project
    _min_ref_map,
    _full_reverse_ref_map,
    _reverse_ref_map,
    _build_time_map,
    _build_num_map,
    _max_build_time,
    _unused_libs_map,
    _uuid_map,
    _reverse_uuid_map,
    graph,                    \* the nodes and edges of the last graph built
    _build_time_keys,         \* the keys of _build_time_map in insertion order
    found,                    \* the last call of validate_root_project
    sink,                     \* the last rows handed to the database
    leaderboard,              \* the last leaderboard selected
    render_lock,              \* the thread that holds render_lock, 0 when free
    threads                   \* position of each thread inside a render request

vars == <<fs, sln, log, pc, all_projects, _projects, _external_projects,
          _ref_map, _hide_external_projects, _web_mode, _project_output_map,
          _full_ref_map, stack, descents, _min_ref_map,
          _full_reverse_ref_map, _reverse_ref_map, _build_time_map,
          _build_num_map, _max_build_time, _unused_libs_map, _uuid_map,
          _reverse_uuid_map, graph, _build_time_keys, found, sink,
          leaderboard, render_lock, threads>>

envVars == <<fs, sln, _hide_external_projects, _web_mode>>
collectVars == <<all_projects, _projects, _external_projects, _ref_map,
                 _project_output_map>>
logVars == <<_build_time_map, _build_num_map, _max_build_time,
             _unused_libs_map, _build_time_keys>>
callVars == <<found, sink, leaderboard, render_lock, threads>>

(* ---------------------------------------------------------------------- *)
(* Helpers on sequences, sets and dictionaries                             *)
(* ---------------------------------------------------------------------- *)

Range(s) == {s[i] : i \in 1..Len(s)}

\* All sequences over S of length at most n.
SeqUpTo(S, n) == UNION {[1..k -> S] : k \in 0..n}

EmptyDict == [x \in {} |-> {}]

\* d[k] = v on a dict (a function whose DOMAIN is the key set).
Put(d, k, v) == [x \in DOMAIN d \cup {k} |-> IF x = k THEN v ELSE d[x]]

\* All orders in which a set can be iterated (list(set), for x in set).
Orders(S) == {s \in [1..Cardinality(S) -> S] : Range(s) = S}

\* The elements of a set in Python's sorted() order.
RECURSIVE Sorted(_)
Sorted(S) ==
    IF S = {} THEN <<>>
    ELSE LET m == CHOOSE x \in S : \A y \in S : PathRank[x] <= PathRank[y]
         IN  <<m>> \o Sorted(S \ {m})

\* Every assignment of a reference list to each file of D, with at most n
\* references in total.
RECURSIVE RefLists(_, _)
RefLists(D, n) ==
    IF D = {} THEN {EmptyDict}
    ELSE LET p == CHOOSE x \in D : TRUE
         IN  UNION {{Put(rest, p, s) : rest \in RefLists(D \ {p}, n - Len(s))} :
                    s \in SeqUpTo(Paths, n)}

\* Every assignment of a set of references (within A) to each file of D,
\* with at most n references in total.
RECURSIVE RefSets(_, _, _)
RefSets(D, A, n) ==
    IF D = {} THEN {EmptyDict}
    ELSE LET p == CHOOSE x \in D : TRUE
         IN  UNION {{Put(rest, p, S) : rest \in RefSets(D \ {p}, A, n - Cardinality(S))} :
                    S \in {T \in SUBSET A : Cardinality(T) <= n}}

RECURSIVE TotalLen(_, _)
TotalLen(f, D) ==
    IF D = {} THEN 0
    ELSE LET p == CHOOSE x \in D : TRUE IN Len(f[p]) + TotalLen(f, D \ {p})

\* Reading a defaultdict(set) without inserting the key.
Peek(d, k) == IF k \in DOMAIN d THEN d[k] ELSE {}

\* needle in haystack, for strings as character sequences.
IsSubstring(needle, hay) ==
    \E i \in 0..(Len(hay) - Len(needle)) :
        \A j \in 1..Len(needle) : hay[i + j] = needle[j]

(* ---------------------------------------------------------------------- *)
(* __init__ : the state after construction                                 *)
(* ---------------------------------------------------------------------- *)

\* The files and arguments a builder is created over: the solution lists one
\* of slns, the project files hold at most maxEdges references in total, each
\* file names a set of output files from outSets.  A file nobody reads, and a
\* reference of an external project that run_data_collection filters out, is
\* left out; the references of an external project are kept in sorted order
\* because the code reads them through set().
InitEnv(slns, maxEdges, outSets, webs, hides) ==
    /\ sln \in slns
    /\ _web_mode \in webs
    /\ _hide_external_projects \in hides
    /\ \E sc \in RefLists(sln, maxEdges) :
         LET ext == (UNION {Range(sc[p]) : p \in sln}) \ sln
             all == sln \cup ext
         IN  \E ex \in RefSets(ext, all, maxEdges - TotalLen(sc, sln)) :
             \E outs \in [all -> outSets] :
                fs = [p \in Paths |->
                        IF p \in sln
                        THEN [refs |-> sc[p], outputs |-> outs[p]]
                        ELSE IF p \in ext
                        THEN [refs |-> Sorted(ex[p]), outputs |-> outs[p]]
                        ELSE [refs |-> <<>>, outputs |-> {}]]

\* Threads that may ask for a rendering at the same time.
Threads == 1..MaxThreads

\* validate_root_project has not been called yet.
NoRoot == [called |-> FALSE, root_project |-> <<>>, root_uuid |-> <<>>,
           project |-> None, error |-> ""]

\* No rows have been handed to the database yet.
NoRows == [called |-> FALSE, component |-> <<>>, key |-> None, values |-> <<>>]

\* No leaderboard has been selected yet.
NoLeaderboard == [called |-> FALSE, log |-> <<>>, kind |-> "",
                  num_projects |-> 0, projects |-> <<>>]

\* A thread outside every render request; outcome tells how its last call
\* of the renderer ended.
Idle == [pc |-> "idle", outcome |-> ""]

\* No graph has been built yet.
NoGraph == [built |-> FALSE, log |-> <<>>, root |-> None, direction |-> "", nodes |-> {},
            hidden |-> {}, edges |-> {}]

\* DepGraphBuilder.__init__: every map empty; the lock of the class is free
\* and no thread has asked for anything.
InitBuilder ==
    /\ pc = "new"
    /\ log = <<>>
    /\ all_projects = {}
    /\ _projects = {}
    /\ _external_projects = {}
    /\ _ref_map = EmptyDict
    /\ _project_output_map = EmptyDict
    /\ _full_ref_map = EmptyDict
    /\ stack = <<>>
    /\ descents = [p \in Paths |-> 0]
    /\ _min_ref_map = EmptyDict
    /\ _full_reverse_ref_map = EmptyDict
    /\ _reverse_ref_map = EmptyDict
    /\ _build_time_map = EmptyDict
    /\ _build_num_map = EmptyDict
    /\ _max_build_time = 0
    /\ _unused_libs_map = EmptyDict
    /\ _uuid_map = EmptyDict
    /\ _reverse_uuid_map = EmptyDict
    /\ graph = NoGraph
    /\ _build_time_keys = <<>>
    /\ found = NoRoot
    /\ sink = NoRows
    /\ leaderboard = NoLeaderboard
    /\ render_lock = 0
    /\ threads = [t \in Threads |-> Idle]

\* Builders over every solution and every set of project files, without
\* output files.
Init ==
    /\ InitEnv(SUBSET Paths \ {{}}, MaxEdges, {{}}, {FALSE}, BOOLEAN)
    /\ InitBuilder

\* The same over fewer references, for the runs that build graphs.
InitView ==
    /\ InitEnv(SUBSET Paths \ {{}}, MaxViewEdges, {{}}, {FALSE}, BOOLEAN)
    /\ InitBuilder

\* Builders over a solution of two projects with at most one reference, every
\* choice of output files, web mode on or off: for the runs that read a log.
InitLog ==
    /\ InitEnv({{"a", "b"}}, 1, SUBSET OutNames, BOOLEAN, {FALSE})
    /\ InitBuilder

(* ---------------------------------------------------------------------- *)
(* run_data_collection, first part: projects and direct references         *)
(* ---------------------------------------------------------------------- *)

\* _parse_refs(project): the references of the file, [] when it is missing.
ParseRefs(project) == fs[project].refs

\* list(set(self._parse_refs(project)) & self.all_projects) for every external
\* project: each list in any order the set may be iterated.
RECURSIVE ExternalRefLists(_, _)
ExternalRefLists(D, all) ==
    IF D = {} THEN {EmptyDict}
    ELSE LET p == CHOOSE x \in D : TRUE
         IN  UNION {{Put(rest, p, s) : rest \in ExternalRefLists(D \ {p}, all)} :
                    s \in Orders(Range(ParseRefs(p)) \cap all)}

\* run_data_collection up to the line 'Building reference maps...'.
CollectProjects ==
    /\ pc = "new"
    /\ LET ext == (UNION {Range(ParseRefs(p)) : p \in sln}) \ sln
           all == sln \cup ext
       IN  /\ _projects' = sln
           /\ _external_projects' = ext
           /\ all_projects' = all
           /\ \E er \in ExternalRefLists(ext, all) :
                _ref_map' = [p \in all |-> IF p \in sln THEN ParseRefs(p) ELSE er[p]]
           /\ _project_output_map' =
                [p \in {q \in all : fs[q].outputs # {}} |-> fs[p].outputs]
    /\ pc' = "full"
    /\ UNCHANGED <<envVars, log, _full_ref_map, stack, descents, _min_ref_map,
                   _full_reverse_ref_map, _reverse_ref_map, logVars, _uuid_map,
                   _reverse_uuid_map, graph, callVars>>

(* ---------------------------------------------------------------------- *)
(* _build_full_ref_map : the memoised closure                              *)
(* ---------------------------------------------------------------------- *)

\* Depth at which Python gives up a recursion (RecursionError): deeper than
\* any recursion that enters each project once.
RecursionLimit == Cardinality(Paths) + 1

\* self._ref_map.get(project, [])
RefsOf(project) == IF project \in DOMAIN _ref_map THEN _ref_map[project] ELSE <<>>

\* Variant of Seed: the closure starts empty.
SeedEmpty(project) == {}

\* The seed stored for a project when _build_full_ref_map is entered.
Seed(project) == {project}

\* Variant of Registered: the memo table is never consulted.
NeverRegistered(ref) == FALSE

\* 'ref not in self._full_ref_map' decides on the memo table alone.
Registered(ref) == ref \in DOMAIN _full_ref_map

\* Entering _build_full_ref_map(project): the seed is stored before the loop.
Enter(project) ==
    /\ _full_ref_map' = Put(_full_ref_map, project, Seed(project))
    /\ stack' = Append(stack, [project |-> project, i |-> 1])
    /\ descents' = [descents EXCEPT ![project] = @ + 1]

frameVars == <<envVars, collectVars, log, _min_ref_map, _full_reverse_ref_map,
               _reverse_ref_map, logVars, _uuid_map, _reverse_uuid_map, graph,
               callVars>>

\* The loop of run_data_collection over all_projects, in the set's order: the
\* next project that is not yet in _full_ref_map is built.
BuildNext ==
    /\ pc = "full"
    /\ stack = <<>>
    /\ \E project \in all_projects \ DOMAIN _full_ref_map : Enter(project)
    /\ UNCHANGED <<pc, frameVars>>

\* The loop is over: every project is in _full_ref_map.
BuildDone ==
    /\ pc = "full"
    /\ stack = <<>>
    /\ all_projects \subseteq DOMAIN _full_ref_map
    /\ pc' = "min"
    /\ UNCHANGED <<frameVars, _full_ref_map, stack, descents>>

Top == stack[Len(stack)]
TopRef == RefsOf(Top.project)[Top.i]
Advance(st) == [st EXCEPT ![Len(st)].i = @ + 1]

\* 'if ref in self._full_ref_map[project]: continue'
SkipRef ==
    /\ pc = "full"
    /\ stack # <<>>
    /\ Top.i <= Len(RefsOf(Top.project))
    /\ TopRef \in _full_ref_map[Top.project]
    /\ stack' = Advance(stack)
    /\ UNCHANGED <<pc, frameVars, _full_ref_map, descents>>

\* 'if ref not in self._full_ref_map: self._build_full_ref_map(ref)'
Descend ==
    /\ pc = "full"
    /\ stack # <<>>
    /\ Top.i <= Len(RefsOf(Top.project))
    /\ TopRef \notin _full_ref_map[Top.project]
    /\ ~Registered(TopRef)
    /\ IF Len(stack) >= RecursionLimit
       THEN /\ pc' = "crashed"
            /\ UNCHANGED <<_full_ref_map, stack, descents>>
       ELSE /\ Enter(TopRef)
            /\ pc' = pc
    /\ UNCHANGED frameVars

\* 'self._full_ref_map[project] |= self._full_ref_map[ref]' for a reference
\* that is already in the map.
MergeRef ==
    /\ pc = "full"
    /\ stack # <<>>
    /\ Top.i <= Len(RefsOf(Top.project))
    /\ TopRef \notin _full_ref_map[Top.project]
    /\ Registered(TopRef)
    /\ _full_ref_map' = [_full_ref_map EXCEPT ![Top.project] = @ \cup _full_ref_map[TopRef]]
    /\ stack' = Advance(stack)
    /\ UNCHANGED <<pc, frameVars, descents>>

\* The loop over the references ends and the call returns; a recursive call
\* returns into line 441 of its caller, which merges the result.
Return ==
    /\ pc = "full"
    /\ stack # <<>>
    /\ Top.i > Len(RefsOf(Top.project))
    /\ LET rest == SubSeq(stack, 1, Len(stack) - 1)
       IN  IF rest = <<>>
           THEN /\ stack' = rest
                /\ UNCHANGED _full_ref_map
           ELSE LET caller == rest[Len(rest)].project
                IN  /\ _full_ref_map' = [_full_ref_map EXCEPT
                          ![caller] = @ \cup _full_ref_map[Top.project]]
                    /\ stack' = Advance(rest)
    /\ UNCHANGED <<pc, frameVars, descents>>

(* ---------------------------------------------------------------------- *)
(* _get_filtered_refs and _build_min_ref_map                               *)
(* ---------------------------------------------------------------------- *)

\* _get_filtered_refs(project, self._ref_map, lambda r: r in self._projects)
\* at recursion depth 'depth': ok is FALSE when the recursion does not end
\* (RecursionError), refs is the returned set otherwise.
RECURSIVE GetFilteredRefs(_, _)
GetFilteredRefs(project, depth) ==
    IF depth > RecursionLimit THEN [ok |-> FALSE, refs |-> {}]
    ELSE LET subs == {IF ref \in _projects
                      THEN [ok |-> TRUE, refs |-> {ref}]
                      ELSE GetFilteredRefs(ref, depth + 1) :
                      ref \in Range(RefsOf(project))}
         IN  [ok |-> \A r \in subs : r.ok, refs |-> UNION {r.refs : r \in subs}]

\* Variant of SameRef: a reference is compared with itself too.
SameRefNever(ref, otherRef) == FALSE

\* 'if ref == otherRef: continue'
SameRef(ref, otherRef) == ref = otherRef

\* Lines 461-467: some other reference of the project reaches ref.
Redundant(ref, refs) ==
    \E k \in 1..Len(refs) :
        /\ ~SameRef(ref, refs[k])
        /\ ref \in _full_ref_map[refs[k]]

\* Lines 459-469: the references that are not redundant, in the order of refs.
RECURSIVE KeepNeeded(_, _)
KeepNeeded(refs, n) ==
    IF n = 0 THEN <<>>
    ELSE IF Redundant(refs[n], refs)
         THEN KeepNeeded(refs, n - 1)
         ELSE Append(KeepNeeded(refs, n - 1), refs[n])

\* Lines 454-457: the reference lists the reduction may run over; the filtered
\* references are a set, iterated in any order.
RefsToReduce(project) ==
    IF _hide_external_projects
    THEN Orders(GetFilteredRefs(project, 1).refs)
    ELSE {_ref_map[project]}

\* The values _min_ref_map may take over the projects D.
RECURSIVE MinRefMaps(_)
MinRefMaps(D) ==
    IF D = {} THEN {EmptyDict}
    ELSE LET p == CHOOSE x \in D : TRUE
         IN  UNION {{Put(rest, p, KeepNeeded(refs, Len(refs))) : rest \in MinRefMaps(D \ {p})} :
                    refs \in RefsToReduce(p)}

\* The projects on which _get_filtered_refs never returns.
Unfiltered ==
    IF _hide_external_projects
    THEN {p \in all_projects : ~GetFilteredRefs(p, 1).ok}
    ELSE {}

restVars == <<envVars, collectVars, log, _full_ref_map, stack, descents, logVars>>

\* _build_min_ref_map; a RecursionError leaves the map filled for the projects
\* the loop had passed.
BuildMinRefMap ==
    /\ pc = "min"
    /\ IF Unfiltered = {}
       THEN /\ _min_ref_map' \in MinRefMaps(all_projects)
            /\ pc' = "reverse"
       ELSE /\ \E passed \in SUBSET (all_projects \ Unfiltered) :
                  _min_ref_map' \in MinRefMaps(passed)
            /\ pc' = "crashed"
    /\ UNCHANGED <<restVars, _full_reverse_ref_map, _reverse_ref_map,
                   _uuid_map, _reverse_uuid_map, graph, callVars>>

(* ---------------------------------------------------------------------- *)
(* _build_reverse_ref_maps and _generate_uuids                             *)
(* ---------------------------------------------------------------------- *)

\* Variant of FullReverse: the closure is copied instead of inverted.
FullReverseCopied ==
    LET keys == DOMAIN _full_ref_map \cup UNION {_full_ref_map[p] : p \in DOMAIN _full_ref_map}
    IN  [r \in keys |-> IF r \in DOMAIN _full_ref_map THEN _full_ref_map[r] ELSE {}]

\* Lines 472-475: project under itself and under each member of its closure.
FullReverse ==
    LET keys == DOMAIN _full_ref_map \cup UNION {_full_ref_map[p] : p \in DOMAIN _full_ref_map}
    IN  [r \in keys |-> {p \in DOMAIN _full_ref_map : p = r \/ r \in _full_ref_map[p]}]

\* Lines 477-479: project under each of its minimal references.
MinReverse ==
    LET keys == UNION {Range(_min_ref_map[p]) : p \in DOMAIN _min_ref_map}
    IN  [r \in keys |-> {p \in DOMAIN _min_ref_map : r \in Range(_min_ref_map[p])}]

\* _generate_uuids: the position of each project in sorted order, from 0.
Uuids ==
    LET order == Sorted(all_projects)
    IN  [p \in all_projects |-> (CHOOSE k \in 1..Len(order) : order[k] = p) - 1]

\* The last two calls of run_data_collection.
BuildReverseRefMaps ==
    /\ pc = "reverse"
    /\ _full_reverse_ref_map' = FullReverse
    /\ _reverse_ref_map' = MinReverse
    /\ _uuid_map' = Uuids
    /\ _reverse_uuid_map' = [u \in {Uuids[p] : p \in all_projects} |->
                               CHOOSE p \in all_projects : Uuids[p] = u]
    /\ pc' = "done"
    /\ UNCHANGED <<restVars, _min_ref_map, graph, callVars>>

(* ---------------------------------------------------------------------- *)
(* render_graph : the nodes and the edges of one graph                     *)
(* ---------------------------------------------------------------------- *)

Directions == {"up", "down", ""}

\* The projects a graph may show before a root restricts them.
Displayable == IF _hide_external_projects THEN _projects ELSE all_projects

\* Variant of GetDisplayProjects: the root is not added to its neighbourhood.
GetDisplayProjectsNoRoot(root_project, direction) ==
    IF root_project = None THEN Displayable
    ELSE IF direction = "up"
         THEN Displayable \cap _full_ref_map[root_project]
    ELSE IF direction = "down"
         THEN Displayable \cap Peek(_full_reverse_ref_map, root_project)
    ELSE Displayable \cap (Range(_min_ref_map[root_project])
                             \cup Peek(_reverse_ref_map, root_project))

\* _get_display_projects(root_project, direction); reads of the reverse maps
\* go through Peek here, the key they insert is added by Touch.
GetDisplayProjects(root_project, direction) ==
    IF root_project = None THEN Displayable
    ELSE IF direction = "up"
         THEN Displayable \cap _full_ref_map[root_project]
    ELSE IF direction = "down"
         THEN Displayable \cap Peek(_full_reverse_ref_map, root_project)
    ELSE (Displayable \cap (Range(_min_ref_map[root_project])
                              \cup Peek(_reverse_ref_map, root_project)))
             \cup {root_project}

\* d[k] on a defaultdict(set): a missing key is inserted with an empty set.
Touch(d, k) == IF k \in DOMAIN d THEN d ELSE Put(d, k, {})

\* Variant of Marker: the file name without the separator.
MarkerBare(output_file) == output_file

\* Lines 569-573: some output file of ref, behind a path separator, is in the
\* unused-libraries text of project.
Marker(output_file) == <<"\\">> \o output_file

Unused(ref, project) ==
    /\ ref \in DOMAIN _project_output_map
    /\ project \in DOMAIN _unused_libs_map
    /\ \E output_file \in _project_output_map[ref] :
          IsSubstring(Marker(output_file), _unused_libs_map[project])

\* Variant of EdgeShown: the reference is not looked up among the nodes.
EdgeAlwaysShown(ref, display_projects) == TRUE

\* 'if ref not in display_projects: continue'
EdgeShown(ref, display_projects) == ref \in display_projects

\* _add_graph_edges: the edges handed to the renderer, dependency first.
AddGraphEdges(display_projects, hidden_projects) ==
    {[dependency |-> ref, dependent |-> project,
      style |-> IF project \in hidden_projects \/ ref \in hidden_projects
                THEN "invis" ELSE "solid",
      color |-> IF project \in hidden_projects \/ ref \in hidden_projects
                THEN None
                ELSE IF Unused(ref, project) THEN "#ff0000" ELSE "#000000"] :
     <<project, ref>> \in
        {pr \in display_projects \X all_projects :
            /\ pr[1] \in DOMAIN _min_ref_map
            /\ pr[2] \in Range(_min_ref_map[pr[1]])
            /\ EdgeShown(pr[2], display_projects)}}

\* The hidden lists a request may carry: uuids of projects; outside web mode
\* the list is not read.
HiddenLists ==
    IF _web_mode
    THEN {h \in SUBSET DOMAIN _reverse_uuid_map : Cardinality(h) <= MaxHidden}
    ELSE {{}}

\* render_graph(root_project, direction, hidden_list) up to the call of the
\* renderer, for a root among roots that validate_root_project has resolved
\* (None: no root given).  The graph keeps, with the nodes and edges, the
\* logs that had been parsed when it was built.
RenderGraph(roots) ==
    /\ pc = "done"
    /\ \E root_project \in roots, direction \in Directions,
          hidden_list \in HiddenLists :
         /\ root_project = None => direction = ""
         /\ LET hidden_projects ==
                    IF _web_mode /\ hidden_list # {}
                    THEN {_reverse_uuid_map[u] : u \in hidden_list} ELSE {}
                display_projects == GetDisplayProjects(root_project, direction)
            IN  graph' = [built |-> TRUE, log |-> log, root |-> root_project, direction |-> direction,
                          nodes |-> display_projects,
                          hidden |-> hidden_projects,
                          edges |-> AddGraphEdges(display_projects, hidden_projects)]
         /\ _full_reverse_ref_map' =
                IF root_project # None /\ direction = "down"
                THEN Touch(_full_reverse_ref_map, root_project)
                ELSE _full_reverse_ref_map
         /\ _reverse_ref_map' =
                IF root_project # None /\ direction \notin {"up", "down"}
                THEN Touch(_reverse_ref_map, root_project)
                ELSE _reverse_ref_map
    /\ UNCHANGED <<pc, restVars, _min_ref_map, _uuid_map, _reverse_uuid_map>>

\* A graph of the whole solution, or of any root in any direction.
RenderAny == RenderGraph(all_projects \cup {None}) /\ UNCHANGED callVars

\* A graph of the whole solution.
RenderAll == RenderGraph({None}) /\ UNCHANGED callVars

(* ---------------------------------------------------------------------- *)
(* parse_build_log                                                         *)
(* ---------------------------------------------------------------------- *)

Texts == SeqUpTo(Chars, MaxText)

\* The parsers a log of at most n builds may give: build_map and
\* unused_libs_map as one list of builds, the position being the build number.
Parsers(durations, texts, n) ==
    SeqUpTo([project : Paths, build_ms : durations, unused : texts], n)

Max(x, y) == IF x >= y THEN x ELSE y

\* Lines 207-215 over the first n builds of the parser.
RECURSIVE Attach(_, _)
Attach(parser, n) ==
    IF n = 0
    THEN [time |-> _build_time_map, num |-> _build_num_map,
          max |-> _max_build_time, unused |-> _unused_libs_map,
          keys |-> _build_time_keys]
    ELSE LET prev == Attach(parser, n - 1)
             fact == parser[n]
         IN  [time |-> Put(prev.time, fact.project, fact.build_ms),
              num |-> Put(prev.num, fact.project, n),
              max |-> Max(prev.max, fact.build_ms),
              unused |-> IF Len(fact.unused) > 0
                         THEN Put(prev.unused, fact.project, fact.unused)
                         ELSE prev.unused,
              keys |-> IF fact.project \in DOMAIN prev.time
                       THEN prev.keys
                       ELSE Append(prev.keys, fact.project)]

\* parse_build_log(parser=parser), once, on a builder that has collected.
ParseBuildLog(parsers) ==
    /\ pc = "done"
    /\ log = <<>>
    /\ \E parser \in parsers :
         LET r == Attach(parser, Len(parser))
         IN  /\ log' = <<parser>>
             /\ _build_time_map' = r.time
             /\ _build_num_map' = r.num
             /\ _max_build_time' = r.max
             /\ _unused_libs_map' = r.unused
             /\ _build_time_keys' = r.keys
    /\ UNCHANGED <<pc, envVars, collectVars, _full_ref_map, stack, descents,
                   _min_ref_map, _full_reverse_ref_map, _reverse_ref_map,
                   _uuid_map, _reverse_uuid_map, graph, callVars>>

\* parse_build_log on a log of at most one build, which may report unused
\* libraries.
ParseUnusedLog == ParseBuildLog(Parsers({1}, Texts, 1))

(* ---------------------------------------------------------------------- *)
(* The leaderboards                                                        *)
(* ---------------------------------------------------------------------- *)

\* What run_data_collection and parse_build_log have left in the builder.
doneVars == <<pc, restVars, _min_ref_map, _full_reverse_ref_map,
              _reverse_ref_map, _uuid_map, _reverse_uuid_map>>

\* parse_build_log on a log of at most MaxFacts builds with their times.
ParseTimedLog == ParseBuildLog(Parsers(Durations, {<<>>}, MaxFacts))

\* The sequence without its k-th element.
Without(items, k) == SubSeq(items, 1, k - 1) \o SubSeq(items, k + 1, Len(items))

\* sorted(items, key=weight, reverse=True): the heaviest first, items of
\* equal weight in the order they had (the sort is stable).
RECURSIVE SortedDescending(_, _)
SortedDescending(items, weight) ==
    IF items = <<>> THEN <<>>
    ELSE LET k == CHOOSE i \in 1..Len(items) :
                    /\ \A j \in 1..Len(items) : weight[items[j]] <= weight[items[i]]
                    /\ \A j \in 1..(i - 1) : weight[items[j]] < weight[items[i]]
         IN  <<items[k]>> \o SortedDescending(Without(items, k), weight)

\* [project for project in items if project in self._projects]
Internal(items) == SelectSeq(items, LAMBDA project : project \in _projects)

\* items[:n] for n >= 0
Take(items, n) == SubSeq(items, 1, IF n < Len(items) THEN n ELSE Len(items))

\* Lines 292-293: the projects of the solution by build time.
BuildTimeRanking ==
    Internal(SortedDescending(_build_time_keys, _build_time_map))

\* create_build_time_leaderboard(num_projects) up to the call of the renderer.
CreateBuildTimeLeaderboard ==
    /\ pc = "done"
    /\ \E num_projects \in 0..MaxFacts :
          leaderboard' = [called |-> TRUE, log |-> log, kind |-> "build_time",
                          num_projects |-> num_projects,
                          projects |-> Take(BuildTimeRanking, num_projects)]
    /\ UNCHANGED <<doneVars, graph, found, sink, render_lock, threads>>

\* Lines 298-299: the projects of the solution by number of minimal
\* dependents, for every order the keys of _reverse_ref_map may have been
\* inserted in (it follows the iteration order of the set all_projects).
ReferenceRankings ==
    {Internal(SortedDescending(order,
                  [k \in DOMAIN _reverse_ref_map |-> Cardinality(_reverse_ref_map[k])])) :
        order \in Orders(DOMAIN _reverse_ref_map)}

\* Lines 298-300: the list handed to _render_leaderboards.
SelectReferenceLeaderboard ==
    \E num_projects \in 0..Cardinality(Paths), ranking \in ReferenceRankings :
        leaderboard' = [called |-> TRUE, log |-> log, kind |-> "reference",
                        num_projects |-> num_projects,
                        projects |-> Take(ranking, num_projects)]

\* create_reference_leaderboard(num_projects) up to the call of the renderer.
CreateReferenceLeaderboard ==
    /\ pc = "done"
    /\ SelectReferenceLeaderboard
    /\ UNCHANGED <<doneVars, graph, found, sink, render_lock, threads>>

(* ---------------------------------------------------------------------- *)
(* validate_root_project                                                   *)
(* ---------------------------------------------------------------------- *)

\* Variant of Matches: only a project whose path is the name itself matches.
MatchesExact(root_project) ==
    {proj \in all_projects : root_project = PathName[proj]}

\* Line 331: [proj for proj in self.all_projects if root_project in proj]
Matches(root_project) ==
    {proj \in all_projects : IsSubstring(root_project, PathName[proj])}

\* validate_root_project(root_project, root_uuid): the project returned, or
\* None and the RootProjectError raised.
Validate(root_project, root_uuid) ==
    LET result(project, error) ==
            [called |-> TRUE, root_project |-> root_project,
             root_uuid |-> root_uuid, project |-> project, error |-> error]
        matches == Matches(root_project)
    IN  IF root_project # <<>> /\ root_uuid # <<>>
        THEN result(None, "only one")
        ELSE IF root_uuid # <<>>
        THEN IF root_uuid[1] \in DOMAIN _reverse_uuid_map
             THEN result(_reverse_uuid_map[root_uuid[1]], "")
             ELSE result(None, "no uuid")
        ELSE IF matches = {} THEN result(None, "no match")
        ELSE IF Cardinality(matches) > 1 THEN result(None, "ambiguous")
        ELSE result(CHOOSE proj \in matches : TRUE, "")

\* One call of validate_root_project on the constructed builder.
ValidateRootProject ==
    /\ pc = "done"
    /\ \E root_project \in RootNames, root_uuid \in RootUuids :
          found' = Validate(root_project, root_uuid)
    /\ UNCHANGED <<doneVars, graph, sink, leaderboard, render_lock, threads>>

(* ---------------------------------------------------------------------- *)
(* __main__ : the rows of one component                                    *)
(* ---------------------------------------------------------------------- *)

\* key.endswith(name)
EndsWith(key, name) ==
    /\ Len(key) >= Len(name)
    /\ SubSeq(key, Len(key) - Len(name) + 1, Len(key)) = name

\* Lines 626-627: the name with and without '3rd_' in front.
PossibleNames(component) ==
    {<<"\\">> \o component \o Ext,
     <<"\\", "3", "r", "d", "_">> \o component \o Ext}

\* path.split('\\')[-1]
RECURSIVE Basename(_)
Basename(path) ==
    IF \E i \in 1..Len(path) : path[i] = "\\"
    THEN Basename(Tail(path))
    ELSE path

\* text.replace(old, ''): every occurrence of old is taken out, left to right.
RECURSIVE Remove(_, _)
Remove(text, old) ==
    IF Len(text) < Len(old) THEN text
    ELSE IF SubSeq(text, 1, Len(old)) = old
         THEN Remove(SubSeq(text, Len(old) + 1, Len(text)), old)
         ELSE <<Head(text)>> \o Remove(Tail(text), old)

\* path.split('\\')[-1].replace('.vcxproj', '')
DependencyName(project) == Remove(Basename(PathName[project]), Ext)

\* Line 630: the keys of _full_ref_map that end with one of the names; the
\* code takes the first in the order of the dict, which follows the
\* iteration order of the set all_projects.
ComponentsOfInterest(component) ==
    {key \in DOMAIN _full_ref_map :
        \E name \in PossibleNames(component) : EndsWith(PathName[key], name)}

\* Lines 635-649: the rows of the component found under key, in the order
\* the closure set is iterated.
Rows(component, key, order) ==
    LET kept == SelectSeq(order, LAMBDA path : DependencyName(path) # component)
    IN  [i \in 1..Len(kept) |-> <<component, DependencyName(kept[i])>>]

\* __main__ after run_data_collection, for --root component: the rows handed
\* to executemany, none when no key is found.
PersistComponent ==
    /\ pc = "done"
    /\ ~sink.called
    /\ \E component \in ComponentNames :
          IF ComponentsOfInterest(component) = {}
          THEN sink' = [called |-> TRUE, component |-> component,
                        key |-> None, values |-> <<>>]
          ELSE \E key \in ComponentsOfInterest(component) :
               \E order \in Orders(_full_ref_map[key]) :
                  sink' = [called |-> TRUE, component |-> component,
                           key |-> key, values |-> Rows(component, key, order)]
    /\ UNCHANGED <<doneVars, graph, found, leaderboard, render_lock, threads>>

(* ---------------------------------------------------------------------- *)
(* render_lock : threads that render                                       *)
(* ---------------------------------------------------------------------- *)

\* What a thread does not touch in the builder while it renders.
builderVars == <<doneVars, graph, found, sink, leaderboard>>

\* The thread goes on to position to.
Goto(t, to) == threads' = [threads EXCEPT ![t].pc = to]

\* A thread calls render_graph() on the builder and gets as far as line 282.
RequestGraph ==
    \E t \in Threads :
        /\ threads[t].pc = "idle"
        /\ RenderGraph({None})
        /\ Goto(t, "selected")
        /\ UNCHANGED <<found, sink, leaderboard, render_lock>>

\* A thread calls create_reference_leaderboard() on the builder and gets as
\* far as line 375.
RequestLeaderboard ==
    \E t \in Threads :
        /\ threads[t].pc = "idle"
        /\ pc = "done"
        /\ SelectReferenceLeaderboard
        /\ Goto(t, "selected")
        /\ UNCHANGED <<doneVars, graph, found, sink, render_lock>>

\* A thread gets as far on another DepGraphBuilder: render_lock belongs to
\* the class, so it is the same lock.
RequestElsewhere ==
    \E t \in Threads :
        /\ threads[t].pc = "idle"
        /\ Goto(t, "selected")
        /\ UNCHANGED <<builderVars, render_lock>>

\* self.render_lock.acquire() returns once the lock is free; the thread
\* enters the try block and calls root_graph.render.
Acquire ==
    \E t \in Threads :
        /\ threads[t].pc = "selected"
        /\ render_lock = 0
        /\ render_lock' = t
        /\ Goto(t, "rendering")
        /\ UNCHANGED builderVars

\* root_graph.render returns.
RenderReturns ==
    \E t \in Threads :
        /\ threads[t].pc = "rendering"
        /\ threads' = [threads EXCEPT ![t] = [pc |-> "finally", outcome |-> "returned"]]
        /\ UNCHANGED <<builderVars, render_lock>>

\* root_graph.render raises.
RenderRaises ==
    \E t \in Threads :
        /\ threads[t].pc = "rendering"
        /\ threads' = [threads EXCEPT ![t] = [pc |-> "finally", outcome |-> "raised"]]
        /\ UNCHANGED <<builderVars, render_lock>>

\* Variant of LockAfter: without the finally clause a raise skips the release.
LockAfterNoFinally(t, outcome) == IF outcome = "raised" THEN t ELSE 0

\* 'finally: self.render_lock.release()': the holder of the lock after the
\* try block, however the block ended.
LockAfter(t, outcome) == 0

\* The finally clause; the request returns the file path or passes the
\* exception on.
Release ==
    \E t \in Threads :
        /\ threads[t].pc = "finally"
        /\ render_lock' = LockAfter(t, threads[t].outcome)
        /\ Goto(t, "idle")
        /\ UNCHANGED builderVars

(* ---------------------------------------------------------------------- *)
(* Specifications                                                          *)
(* ---------------------------------------------------------------------- *)

\* run_data_collection.
Next ==
    \/ CollectProjects
    \/ BuildNext
    \/ SkipRef
    \/ Descend
    \/ MergeRef
    \/ Return
    \/ BuildDone
    \/ BuildMinRefMap
    \/ BuildReverseRefMaps

Spec == Init /\ [][Next]_vars

\* run_data_collection always runs on: no step of it waits for anything.
FairSpec == InitView /\ [][Next]_vars /\ WF_vars(Next)

\* run_data_collection, then any graphs.
NextView == Next \/ RenderAny

SpecView == InitView /\ [][NextView]_vars

\* run_data_collection, then a build log and any graphs.
NextLog == Next \/ ParseUnusedLog \/ RenderAll

SpecLog == InitLog /\ [][NextLog]_vars

\* Builders over every solution with few references, both modes: for the
\* runs that look up roots and hand rows to the database.
InitCall ==
    /\ InitEnv(SUBSET Paths \ {{}}, MaxCallEdges, {{}}, {FALSE}, BOOLEAN)
    /\ InitBuilder

\* run_data_collection, then any root lookups.
NextRoot == Next \/ ValidateRootProject

SpecRoot == InitCall /\ [][NextRoot]_vars

\* Builders over a solution of two or three projects with at most one
\* reference, both modes: for the runs that read build times.
InitTime ==
    /\ InitEnv({{"a", "b"}, {"a", "b", "c"}}, 1, {{}}, {FALSE}, BOOLEAN)
    /\ InitBuilder

\* run_data_collection, then a build log and leaderboards by build time.
NextTime == Next \/ ParseTimedLog \/ CreateBuildTimeLeaderboard

SpecTime == InitTime /\ [][NextTime]_vars

\* run_data_collection, then any graphs and leaderboards by references.
NextRank == Next \/ RenderAny \/ CreateReferenceLeaderboard

SpecRank == InitCall /\ [][NextRank]_vars

\* run_data_collection, then the rows of one component.
NextMain == Next \/ PersistComponent

SpecMain == InitCall /\ [][NextMain]_vars

\* Builders over a solution of two projects with at most one reference.
InitRender ==
    /\ InitEnv({{"a", "b"}}, 1, {{}}, {FALSE}, {FALSE})
    /\ InitBuilder

\* run_data_collection, and threads that render at any time.
NextRender ==
    \/ Next
    \/ RequestGraph
    \/ RequestLeaderboard
    \/ RequestElsewhere
    \/ Acquire
    \/ RenderReturns
    \/ RenderRaises
    \/ Release

SpecRender == InitRender /\ [][NextRender]_vars

(* ---------------------------------------------------------------------- *)
(* Properties                                                              *)
(* ---------------------------------------------------------------------- *)

\* The projects reachable from S along zero or more direct references.
RECURSIVE ReachFrom(_)
ReachFrom(S) ==
    LET more == S \cup UNION {Range(RefsOf(p)) : p \in S}
    IN  IF more = S THEN S ELSE ReachFrom(more)

Reachable(P) == ReachFrom({P})

DirectRefs(P) == Range(RefsOf(P))
closureOf(P) == _full_ref_map[P]
minimalRefsOf(P) == Range(_min_ref_map[P])

\* run_data_collection has returned.
Constructed == pc = "done"

\* Every closure in the map is the reachable set.
ClosuresExact == \A P \in all_projects : closureOf(P) = Reachable(P)

\* {P} with the closures of the references in R.
Generated(P, R) == {P} \cup UNION {closureOf(r) : r \in R}

\* C1: after run_data_collection, the closure of every direct reference Q
\* of a project P is contained in the closure of P.
C1_DirectRefsMonotone ==
    Constructed =>
        \A P \in all_projects : \A Q \in DirectRefs(P) :
            closureOf(Q) \subseteq closureOf(P)

\* C2: after construction the closure of every project is exactly the set
\* of projects reachable from it, and the closure map is transitive.
C2_ClosureIsReachability ==
    Constructed =>
        /\ ClosuresExact
        /\ \A P \in all_projects : \A Q \in closureOf(P) :
               closureOf(Q) \subseteq closureOf(P)

\* C3: after construction the closure of every project P is {P} with the
\* closures of its minimal references.  Stated for the runs that favour it
\* most: external projects shown, so that the minimal map is the reduction,
\* and every closure equal to the reachable set.
C3_ReductionKeepsClosure ==
    (Constructed /\ ~_hide_external_projects /\ ClosuresExact) =>
        \A P \in all_projects :
            closureOf(P) = Generated(P, minimalRefsOf(P))

\* C4: after construction, taking any member r out of the minimal
\* references of P strictly shrinks what they generate.  Stated for the same
\* runs as C3.
C4_NoMemberImplied ==
    (Constructed /\ ~_hide_external_projects /\ ClosuresExact) =>
        \A P \in all_projects : \A r \in minimalRefsOf(P) :
            Generated(P, minimalRefsOf(P) \ {r}) # Generated(P, minimalRefsOf(P))

\* C5: right after construction R is in the closure of P exactly when P is
\* in the full reverse of R, and R is a minimal reference of P exactly when
\* P is in the minimal reverse of R.
C5_ReverseMapsExact ==
    Constructed =>
        \A P \in Paths, R \in Paths :
            /\ (P \in DOMAIN _full_ref_map /\ R \in closureOf(P))
                   <=> P \in Peek(_full_reverse_ref_map, R)
            /\ (P \in DOMAIN _min_ref_map /\ R \in minimalRefsOf(P))
                   <=> P \in Peek(_reverse_ref_map, R)

\* A project that reaches another one without naming it among its minimal
\* references, after construction.
C5_Witness ==
    /\ Constructed
    /\ \E P \in all_projects, R \in all_projects :
         /\ P # R
         /\ R \in closureOf(P)
         /\ R \notin minimalRefsOf(P)
         /\ P \notin closureOf(R)

\* C6: every project in the memo table is a member of its own closure, from
\* the step that registers it on, and once the closure loop is over every
\* project, scanned or external, is in the table.
C6_SelfInClosure ==
    /\ \A P \in DOMAIN _full_ref_map : P \in closureOf(P)
    /\ pc \in {"min", "reverse", "done"} => DOMAIN _full_ref_map = all_projects

\* The recursion is two calls deep inside an external project whose closure
\* is still only the seed.
C6_Witness ==
    /\ pc = "full"
    /\ Len(stack) >= 2
    /\ Top.project \in _external_projects
    /\ closureOf(Top.project) = {Top.project}

\* Two projects that reference exactly each other.
TwoCycle(A, B) ==
    /\ A # B
    /\ A \in DOMAIN _ref_map /\ B \in DOMAIN _ref_map
    /\ _ref_map[A] = <<B>> /\ _ref_map[B] = <<A>>

\* C7: the closure computation ends (the builder goes on to the minimal
\* map) on every graph, no project is entered more than once, and two
\* projects that reference exactly each other both end with the closure
\* {A, B}.
C7_ClosureTerminates ==
    /\ <>(pc = "min")
    /\ [](\A P \in Paths : descents[P] <= 1)
    /\ [](pc \in {"min", "reverse", "done"} =>
            \A A \in Paths, B \in Paths :
                TwoCycle(A, B) =>
                    closureOf(A) = {A, B} /\ closureOf(B) = {A, B})

\* The closure loop has ended on a graph with a two-cycle and a
\* self-reference.
C7_Witness ==
    /\ pc = "min"
    /\ \E A \in Paths, B \in Paths : TwoCycle(A, B)
    /\ \E P \in all_projects : P \in DirectRefs(P)

\* The projects whose closure contains R, and those that name R among their
\* minimal references.
fullReverse(R) == {P \in all_projects : R \in closureOf(P)}
minimalReverse(R) == {P \in all_projects : R \in minimalRefsOf(P)}

\* Root M references N alone, P references M alone, N references nothing.
ScenarioD(M, N, P) ==
    /\ Cardinality({M, N, P}) = 3
    /\ {M, N, P} \subseteq Displayable
    /\ _ref_map[M] = <<N>> /\ _ref_map[P] = <<M>> /\ _ref_map[N] = <<>>

\* C8: the nodes of a graph with a root are the displayable projects within
\* the closure of the root (up), within the full reverse of the root
\* (down), or else the root with the displayable minimal references and
\* minimal dependents of the root; M with reference N and dependent P gives
\* {M, N, P}.
C8_SelectForRootNodes ==
    (graph.built /\ graph.root # None) =>
        /\ graph.direction = "up" =>
             graph.nodes = Displayable \cap closureOf(graph.root)
        /\ graph.direction = "down" =>
             graph.nodes = Displayable \cap fullReverse(graph.root)
        /\ graph.direction \notin {"up", "down"} =>
             /\ graph.nodes = {graph.root} \cup
                    (Displayable \cap (minimalRefsOf(graph.root)
                                         \cup minimalReverse(graph.root)))
             /\ \A N \in Paths, P \in Paths :
                    ScenarioD(graph.root, N, P) => graph.nodes = {graph.root, N, P}

\* The neighbourhood graph of scenario D has been built.
C8_Witness ==
    /\ graph.built /\ graph.root # None /\ graph.direction = ""
    /\ \E N \in Paths, P \in Paths : ScenarioD(graph.root, N, P)
    /\ Cardinality(graph.nodes) = 3

\* C9: the edges of every graph are exactly the pairs dependency ->
\* dependent of two nodes of the graph where the dependency is a minimal
\* reference of the dependent.
C9_EdgesAreMinimalEdges ==
    graph.built =>
        {<<e.dependency, e.dependent>> : e \in graph.edges} =
            {pr \in graph.nodes \X graph.nodes : pr[1] \in minimalRefsOf(pr[2])}

\* A graph with an edge, with two nodes joined in the closure only, and with
\* a node whose minimal reference is outside the graph.
C9_Witness ==
    /\ graph.built
    /\ graph.edges # {}
    /\ \E P \in graph.nodes, R \in graph.nodes :
         P # R /\ R \in closureOf(P) /\ R \notin minimalRefsOf(P)
    /\ \E P \in graph.nodes : minimalRefsOf(P) \ graph.nodes # {}

\* The unused-libraries text kept for a project ('' when there is none).
UnusedText(project) ==
    IF project \in DOMAIN _unused_libs_map THEN _unused_libs_map[project] ELSE <<>>

\* The edge is drawn in the colour of an unused reference.
Flagged(e) == e.color = "#ff0000"

\* The graph was built from the maps as they are now.
GraphCurrent == graph.built /\ graph.log = log

\* C10 as claimed: a visible edge is flagged unused exactly when the name of
\* some output file of the dependency is a substring of the unused text of
\* the dependent.
C10_FlagIffNameInText ==
    GraphCurrent =>
        \A e \in graph.edges :
            e.style = "solid" =>
                (Flagged(e) <=>
                    \E name \in fs[e.dependency].outputs :
                        IsSubstring(name, UnusedText(e.dependent)))

\* C10 as amended: an edge is flagged unused exactly when it is visible and
\* the name of some output file of the dependency, preceded by the path
\* separator, is a substring of the unused text of the dependent.
C10_FlagIffMarkerInText ==
    GraphCurrent =>
        \A e \in graph.edges :
            Flagged(e) <=>
                /\ e.style = "solid"
                /\ \E name \in fs[e.dependency].outputs :
                      IsSubstring(<<"\\">> \o name, UnusedText(e.dependent))

\* A flagged edge, in a graph whose dependency has a second output file that
\* the text does not name.
C10_Witness ==
    /\ GraphCurrent
    /\ \E e \in graph.edges :
         /\ Flagged(e)
         /\ Cardinality(fs[e.dependency].outputs) = 2

\* App references Mid and Base (in either order), Mid references Base, Base
\* references nothing.
ScenarioA(App, Mid, Base) ==
    /\ Cardinality({App, Mid, Base}) = 3
    /\ {App, Mid, Base} \subseteq all_projects
    /\ _ref_map[App] \in {<<Mid, Base>>, <<Base, Mid>>}
    /\ _ref_map[Mid] = <<Base>> /\ _ref_map[Base] = <<>>

\* C16: with external projects shown, after construction a direct reference
\* r of P is a minimal reference of P exactly when no other direct reference
\* of P has r in its closure, all of them judged against the whole list of
\* direct references; App -> {Mid, Base}, Mid -> {Base} gives the minimal
\* references {Mid} and the closure {App, Mid, Base}.
C16_MinimalIsPolicy ==
    (Constructed /\ ~_hide_external_projects) =>
        /\ \A P \in all_projects :
             minimalRefsOf(P) =
                {r \in DirectRefs(P) :
                    ~\E r2 \in DirectRefs(P) : r2 # r /\ r \in closureOf(r2)}
        /\ \A App \in Paths, Mid \in Paths, Base \in Paths :
             ScenarioA(App, Mid, Base) =>
                /\ minimalRefsOf(App) = {Mid}
                /\ closureOf(App) = {App, Mid, Base}

\* Scenario A has been constructed with external projects shown.
C16_Witness ==
    /\ Constructed /\ ~_hide_external_projects
    /\ \E App \in Paths, Mid \in Paths, Base \in Paths :
         /\ ScenarioA(App, Mid, Base)
         /\ minimalRefsOf(App) = {Mid}

\* C17: with external projects shown and every closure exact, two direct
\* references of P that are in each other's closure, neither of them in the
\* closure of a third direct reference of P, are both minimal references of P.
C17_MutualRefsKept ==
    (Constructed /\ ~_hide_external_projects /\ ClosuresExact) =>
        \A P \in all_projects : \A r1 \in DirectRefs(P), r2 \in DirectRefs(P) :
            ( /\ r1 # r2
              /\ r1 \in closureOf(r2) /\ r2 \in closureOf(r1)
              /\ \A r3 \in DirectRefs(P) \ {r1, r2} :
                    r1 \notin closureOf(r3) /\ r2 \notin closureOf(r3) )
            => {r1, r2} \subseteq minimalRefsOf(P)

\* C19: with external projects hidden, building the minimal map never ends
\* in a RecursionError, and the minimal references it yields are projects of
\* the solution.
C19_FilteredMinTerminates ==
    _hide_external_projects =>
        /\ pc # "crashed"
        /\ \A P \in DOMAIN _min_ref_map : minimalRefsOf(P) \subseteq _projects

\* The maps of the builder.
Maps == <<_ref_map, _full_ref_map, _min_ref_map, _full_reverse_ref_map,
          _reverse_ref_map, _build_time_map, _build_num_map,
          _unused_libs_map, _uuid_map, _reverse_uuid_map,
          _project_output_map>>

\* The projects whose path contains the name.
Containing(name) == {P \in all_projects : IsSubstring(name, PathName[P])}

\* C11: a root lookup by name returns a project exactly when one path
\* contains the name, and then that project; with no such path it fails
\* with the error of a root that was not found, with several (one of them
\* may be the name itself) with the error of an ambiguous root; a step in
\* which a lookup fails changes no map.
C11_RootByName ==
    /\ []((found.called /\ found.root_uuid = <<>>) =>
            /\ found.project # None <=> Cardinality(Containing(found.root_project)) = 1
            /\ found.project # None => found.project \in Containing(found.root_project)
            /\ Containing(found.root_project) = {} => found.error = "no match"
            /\ Cardinality(Containing(found.root_project)) > 1
                   => found.error = "ambiguous")
    /\ [][(found' # found /\ found'.project = None) => UNCHANGED Maps]_vars

\* A lookup by the whole path of one project has failed as ambiguous.
C11_Witness ==
    /\ found.called
    /\ found.root_uuid = <<>>
    /\ \E P \in all_projects : found.root_project = PathName[P]
    /\ found.error = "ambiguous"

\* The set S as a sequence, longest build first, projects of equal build
\* time in the order of their paths.
RECURSIVE ByDurationThenPath(_)
ByDurationThenPath(S) ==
    IF S = {} THEN <<>>
    ELSE LET m == CHOOSE x \in S : \A y \in S :
                    \/ _build_time_map[x] > _build_time_map[y]
                    \/ /\ _build_time_map[x] = _build_time_map[y]
                       /\ PathRank[x] <= PathRank[y]
         IN  <<m>> \o ByDurationThenPath(S \ {m})

\* Build times X: 500, Y: 300, Z: 900 of three projects of the solution.
ScenarioC(X, Y, Z) ==
    /\ {X, Y, Z} \subseteq _projects
    /\ DOMAIN _build_time_map = {X, Y, Z}
    /\ _build_time_map[X] = 500 /\ _build_time_map[Y] = 300
    /\ _build_time_map[Z] = 900

\* The leaderboard by build time was selected from the times as they are now.
RankingCurrent ==
    leaderboard.called /\ leaderboard.kind = "build_time" /\ leaderboard.log = log

\* C12: the leaderboard by build time of n projects is the first n of the
\* timed projects of the solution, longest build first and projects of equal
\* build time in the order of their paths, whatever the order of the builds
\* in the log; times X: 500, Y: 300, Z: 900 and n = 2 give <<Z, X>>.
C12_RankByDuration ==
    RankingCurrent =>
        /\ leaderboard.projects =
              Take(ByDurationThenPath(DOMAIN _build_time_map \cap _projects),
                   leaderboard.num_projects)
        /\ \A X \in Paths, Y \in Paths, Z \in Paths :
              (ScenarioC(X, Y, Z) /\ leaderboard.num_projects = 2)
                  => leaderboard.projects = <<Z, X>>

\* The build times stored for projects the builder knows, as a set.
KnownTimes == {f.build_ms : f \in {g \in Range(log[1]) : g.project \in all_projects}}

\* C18: after a log has been read, a build of a project the builder does not
\* know has left no build time and no build number, the running maximum is
\* the largest build time among the builds of known projects (0 when there
\* is none), and no stored build time exceeds it.
C18_UnknownFactsDiscarded ==
    log # <<>> =>
        /\ DOMAIN _build_time_map \subseteq all_projects
        /\ DOMAIN _build_num_map \subseteq all_projects
        /\ \A t \in KnownTimes : t <= _max_build_time
        /\ KnownTimes # {} => _max_build_time \in KnownTimes
        /\ KnownTimes = {} => _max_build_time = 0
        /\ \A P \in DOMAIN _build_time_map : _build_time_map[P] <= _max_build_time

\* The projects a leaderboard by references of any length can list.
ReferenceRanked == DOMAIN _reverse_ref_map \cap _projects

\* C14: once the builder is constructed, no step of a graph or leaderboard
\* selection changes the closure map, the minimal map or either reverse map,
\* key sets included, nor the projects a leaderboard by references lists.
C14_SelectionsReadOnly ==
    [][(pc = "done" /\ pc' = "done") =>
          /\ UNCHANGED <<_full_ref_map, _min_ref_map, _full_reverse_ref_map,
                         _reverse_ref_map>>
          /\ ReferenceRanked' = ReferenceRanked]_vars

\* C15: the rows handed to the database for a component whose project was
\* found are the pairs of the component with the name of every project
\* whose closure contains that project, the project itself left out, under
\* either form of the name.
C15_RowsAreDownstream ==
    (sink.called /\ sink.key # None) =>
        Range(sink.values) =
            {<<sink.component, DependencyName(d)>> :
                d \in fullReverse(sink.key) \ {sink.key}}

\* The threads between acquire() and release().
Inside == {t \in Threads : threads[t].pc \in {"rendering", "finally"}}

\* C13: at most one thread is inside the call of the renderer, a thread
\* holds the lock exactly from its acquire to the finally clause of that
\* call, and the lock is free whenever no thread is there, also after a
\* call that raised, so that a waiting thread can go on.
C13_RenderSerialized ==
    /\ Cardinality({t \in Threads : threads[t].pc = "rendering"}) <= 1
    /\ \A t \in Threads : render_lock = t <=> t \in Inside
    /\ render_lock = 0 <=> Inside = {}
    /\ \A t \in Threads :
          (threads[t].pc \in {"idle", "selected"} /\ threads[t].outcome = "raised")
              => render_lock # t

\* A thread whose last call of the renderer raised waits for its next one
\* while another thread is inside the renderer.
C13_Witness ==
    \E t \in Threads, u \in Threads :
        /\ threads[t].pc = "selected" /\ threads[t].outcome = "raised"
        /\ threads[u].pc = "rendering" /\ threads[u].outcome = "raised"

====
